---- MODULE Spec2Model ----
(***************************************************************************)
(* Model of the Sylvie v3 client.                                          *)
(*  - the Zustand store (sylvie-v3/src/store/sylvieStore.ts): every action *)
(*    is one synchronous set() on the state, so one atomic step; uuidv4()  *)
(*    is modelled as a fresh identifier drawn from a counter.  (Spec)      *)
(*  - the SylvieV3Interface component (unnamed/part_008) that drives the   *)
(*    store and mocks the assistant with setTimeout.  (UISpec)             *)
(***************************************************************************)
EXTENDS Integers, Sequences, FiniteSets, TLC

\* Bounds of the model
MaxIds == 4
MaxMsgs == 3
MaxSends == 2
MaxConvs == 2
MaxToasts == 3
MaxSrvConvs == 3
MaxChatConvs == 2
MaxChatMsgs == 3
MaxNet == 2
MaxReloads == 1

\* setTimeout delay of the simulated reply, and the step of the model's clock (ms)
ReplyDelay == 2000
TickMs == ReplyDelay \div 2

\* localStorage.getItem of a key that was never set
NoItem == [present |-> FALSE, value |-> <<>>]

\* The null of the toast state
NoToast == [id |-> 0, type |-> "null"]

\* THEME.durations.toast (ms)
ToastDuration == 3000

\* Validation constants of ChatInterface
MESSAGE_MAX_LENGTH == 1000
MESSAGE_MIN_LENGTH == 1

\* The null of activeConversationId / parentId / user
Null == 0

Contents == {"a", "b"}
MsgTypes == {"user", "assistant"}
Users == {1}

\* What the text area can hold: nothing, blanks only, or a text
Inputs == {"", " ", "a"}

\* String.prototype.trim on the inputs above
Trim(v) == IF v = " " THEN "" ELSE v

\* The template string of the simulated reply, which embeds the input
ReplyTo(v) ==
    CASE v = "a" -> "re:a"
      [] v = "b" -> "re:b"
      [] OTHER -> "re:"

VARIABLES
    user,                  \* state.user
    isAuthenticated,       \* state.isAuthenticated
    conversations,         \* state.conversations : Seq(ConversationBranch)
    activeConversationId,  \* state.activeConversationId
    messages,              \* state.messages : Seq(SylvieMessage)
    isThinking,            \* state.isThinking
    nextId,                \* the next value uuidv4() yields
    returned,              \* the value the last id-returning action returned
    \* SylvieV3Interface
    inputValue,            \* useState('') of the text area
    timers,                \* pending setTimeout callbacks, in scheduling order
    sent,                  \* history: number of accepted sends
    replied,               \* history: number of simulated replies that fired
    replyLog,              \* history: for each fired reply, its message id and
                           \* the conversation that received the user message
    \* ChatInterface (toast)
    message,               \* useState('') of the message being edited
    toast,                 \* useState(null): the toast object shown, or NoToast
    toastTimers,           \* pending setTimeout callbacks of the toast effect
    toastShown,            \* number of toast objects created so far
    toastAge,              \* history: ms since the toast was last set
    toastCancelled,        \* history: timeouts cleared while still pending
    \* /api/conversations handler (unnamed/part_007)
    srvConversations,      \* the module-level conversations array (mock DB)
    lastStatus,            \* status of the last response
    \* ChatInterface (first component of the file) and its requests
    cliConversations,      \* useState([]) conversations
    currentConvId,         \* useState(1)
    loading,               \* useState(true)
    loadPc,                \* where fetchConversations stands
    net,                   \* requests sent and not yet handled
    resp,                  \* the response fetchConversations awaits, once there
    localStore,            \* localStorage 'sylvie_conversations'
    reloads                \* number of page reloads so far

storeVars == <<user, isAuthenticated, conversations, activeConversationId,
               messages, isThinking, nextId, returned>>

uiVars == <<inputValue, timers, sent, replied, replyLog>>

toastVars == <<message, toast, toastTimers, toastShown, toastAge,
              toastCancelled>>

apiVars == <<srvConversations, lastStatus>>

clientVars == <<cliConversations, currentConvId, loading, loadPc, net, resp,
                localStore, reloads>>

\* everything outside the store and SylvieV3Interface
restVars == <<toastVars, apiVars, clientVars>>

\* everything the store's own actions leave alone
nonStoreVars == <<uiVars, restVars>>

vars == <<storeVars, uiVars, restVars>>

\* SylvieMessage: id, type, content and metadata.parentId
SylvieMessage(id, type, content, parent) ==
    [id |-> id, type |-> type, content |-> content, parentId |-> parent]

\* ConversationBranch: id, parentId and messages (title and dates carry no logic)
ConversationBranch(id, parent, msgs) ==
    [id |-> id, parentId |-> parent, messages |-> msgs]

\* conversations.filter(c => c.id !== id)
RECURSIVE FilterOut(_, _)
FilterOut(convs, id) ==
    IF convs = <<>> THEN <<>>
    ELSE IF Head(convs).id # id
         THEN <<Head(convs)>> \o FilterOut(Tail(convs), id)
         ELSE FilterOut(Tail(convs), id)

\* Array.prototype.findIndex on message ids; 0 stands for -1 (indices are 1-based)
FindIndex(msgs, id) ==
    IF \E i \in 1..Len(msgs) : msgs[i].id = id
    THEN CHOOSE i \in 1..Len(msgs) :
            /\ msgs[i].id = id
            /\ \A j \in 1..(i - 1) : msgs[j].id # id
    ELSE 0

\* Mutant of UpdateActive: the active conversation is not brought up to date
UpdateActive_Stale(convs, active, newMessages) == convs

\* conversations.map(conv => conv.id === activeConversationId ? {...conv, messages} : conv)
UpdateActive(convs, active, newMessages) ==
    [i \in 1..Len(convs) |->
        IF convs[i].id = active
        THEN [convs[i] EXCEPT !.messages = newMessages]
        ELSE convs[i]]

\* The part of the store state that conversations and messages live in
StoreState ==
    [conversations |-> conversations,
     activeConversationId |-> activeConversationId,
     messages |-> messages,
     nextId |-> nextId]

\* createConversation as a function of the store state
stCreateConversation(s) ==
    [s EXCEPT !.conversations = Append(s.conversations,
                                       ConversationBranch(s.nextId, Null, <<>>)),
              !.activeConversationId = s.nextId,
              !.messages = <<>>,
              !.nextId = s.nextId + 1]

\* addMessage as a function of the store state
stAddMessage(s, type, content) ==
    LET newMessages == Append(s.messages,
                              SylvieMessage(s.nextId, type, content, Null))
    IN [s EXCEPT !.messages = newMessages,
                 !.conversations = UpdateActive(s.conversations,
                                                s.activeConversationId,
                                                newMessages),
                 !.nextId = s.nextId + 1]

\* Mutant of stDeleteConversation: the messages on screen stay when the
\* active conversation is deleted
stDeleteConversation_KeepsMessages(s, id) ==
    [s EXCEPT !.conversations = FilterOut(s.conversations, id),
              !.activeConversationId =
                  IF s.activeConversationId = id THEN Null
                  ELSE s.activeConversationId]

\* deleteConversation as a function of the store state
stDeleteConversation(s, id) ==
    [s EXCEPT !.conversations = FilterOut(s.conversations, id),
              !.activeConversationId =
                  IF s.activeConversationId = id THEN Null
                  ELSE s.activeConversationId,
              !.messages =
                  IF s.activeConversationId = id THEN <<>> ELSE s.messages]

\* set() of the four fields above
SetStore(s) ==
    /\ conversations' = s.conversations
    /\ activeConversationId' = s.activeConversationId
    /\ messages' = s.messages
    /\ nextId' = s.nextId

UIInit ==
    /\ inputValue = ""
    /\ timers = <<>>
    /\ sent = 0
    /\ replied = 0
    /\ replyLog = {}

StoreInit ==
    /\ user = Null
    /\ isAuthenticated = FALSE
    /\ conversations = <<>>
    /\ activeConversationId = Null
    /\ messages = <<>>
    /\ isThinking = FALSE
    /\ nextId = 1
    /\ returned = Null

ToastInit ==
    /\ message = ""
    /\ toast = NoToast
    /\ toastTimers = <<>>
    /\ toastShown = 0
    /\ toastAge = 0
    /\ toastCancelled = 0

ApiInit ==
    /\ srvConversations = <<>>
    /\ lastStatus = 0

ClientInit ==
    /\ cliConversations = <<>>
    /\ currentConvId = 1
    /\ loading = TRUE
    /\ loadPc = "mount"
    /\ net = <<>>
    /\ resp = <<>>
    /\ localStore = NoItem
    /\ reloads = 0

Init == StoreInit /\ UIInit /\ ToastInit /\ ApiInit /\ ClientInit


setUser(u) ==
    /\ UNCHANGED nonStoreVars
    /\ user' = u
    /\ isAuthenticated' = (u # Null)
    /\ UNCHANGED <<conversations, activeConversationId, messages, isThinking,
                   nextId, returned>>

logout ==
    /\ UNCHANGED nonStoreVars
    /\ user' = Null
    /\ isAuthenticated' = FALSE
    /\ conversations' = <<>>
    /\ activeConversationId' = Null
    /\ messages' = <<>>
    /\ UNCHANGED <<isThinking, nextId, returned>>

createConversation ==
    /\ UNCHANGED nonStoreVars
    /\ nextId <= MaxIds
    /\ SetStore(stCreateConversation(StoreState))
    /\ returned' = nextId
    /\ UNCHANGED <<user, isAuthenticated, isThinking>>

deleteConversation(id) ==
    /\ SetStore(stDeleteConversation(StoreState, id))
    /\ UNCHANGED <<user, isAuthenticated, isThinking, returned>>
    /\ UNCHANGED nonStoreVars

setActiveConversation(id) ==
    /\ UNCHANGED nonStoreVars
    /\ IF \E i \in 1..Len(conversations) : conversations[i].id = id
       THEN LET i == CHOOSE k \in 1..Len(conversations) :
                        /\ conversations[k].id = id
                        /\ \A j \in 1..(k - 1) : conversations[j].id # id
            IN /\ activeConversationId' = id
               /\ messages' = conversations[i].messages
       ELSE UNCHANGED <<activeConversationId, messages>>
    /\ UNCHANGED <<user, isAuthenticated, conversations, isThinking, nextId,
                   returned>>

switchToBranch(branchId) == setActiveConversation(branchId)

addMessage(type, content) ==
    /\ UNCHANGED nonStoreVars
    /\ nextId <= MaxIds
    /\ Len(messages) < MaxMsgs
    /\ SetStore(stAddMessage(StoreState, type, content))
    /\ UNCHANGED <<user, isAuthenticated, isThinking, returned>>

updateMessage(id, content) ==
    /\ UNCHANGED nonStoreVars
    /\ LET newMessages == [i \in 1..Len(messages) |->
                              IF messages[i].id = id
                              THEN [messages[i] EXCEPT !.content = content]
                              ELSE messages[i]]
       IN /\ messages' = newMessages
          /\ conversations' = UpdateActive(conversations, activeConversationId,
                                           newMessages)
    /\ UNCHANGED <<user, isAuthenticated, activeConversationId, isThinking,
                   nextId, returned>>

setThinking(thinking) ==
    /\ UNCHANGED nonStoreVars
    /\ isThinking' = thinking
    /\ UNCHANGED <<user, isAuthenticated, conversations, activeConversationId,
                   messages, nextId, returned>>

\* Mutant of createBranch: the branch stops before the message it starts from
createBranch_BeforeMessage(messageId, newMessage) ==
    /\ nextId + 1 <= MaxIds
    /\ LET branchId == nextId
           messageIndex == FindIndex(messages, messageId)
       IN /\ returned' = branchId
          /\ IF messageIndex # 0
             THEN LET branchMessages ==
                          Append(SubSeq(messages, 1, messageIndex - 1),
                                 SylvieMessage(nextId + 1, "user", newMessage,
                                               messageId))
                  IN /\ conversations' =
                            Append(conversations,
                                   ConversationBranch(branchId,
                                                      activeConversationId,
                                                      branchMessages))
                     /\ activeConversationId' = branchId
                     /\ messages' = branchMessages
                     /\ nextId' = nextId + 2
             ELSE /\ nextId' = nextId + 1
                  /\ UNCHANGED <<conversations, activeConversationId, messages>>
    /\ UNCHANGED <<user, isAuthenticated, isThinking>>
    /\ UNCHANGED nonStoreVars

\* createBranch draws the branch id first, then (when the message is found)
\* a second uuid for the new user message; it returns branchId in both cases.
createBranch(messageId, newMessage) ==
    /\ nextId + 1 <= MaxIds
    /\ LET branchId == nextId
           messageIndex == FindIndex(messages, messageId)
       IN /\ returned' = branchId
          /\ IF messageIndex # 0
             THEN LET branchMessages ==
                          Append(SubSeq(messages, 1, messageIndex),
                                 SylvieMessage(nextId + 1, "user", newMessage,
                                               messageId))
                  IN /\ conversations' =
                            Append(conversations,
                                   ConversationBranch(branchId,
                                                      activeConversationId,
                                                      branchMessages))
                     /\ activeConversationId' = branchId
                     /\ messages' = branchMessages
                     /\ nextId' = nextId + 2
             ELSE /\ nextId' = nextId + 1
                  /\ UNCHANGED <<conversations, activeConversationId, messages>>
    /\ UNCHANGED <<user, isAuthenticated, isThinking>>
    /\ UNCHANGED nonStoreVars

Next ==
    \/ \E u \in Users \cup {Null} : setUser(u)
    \/ logout
    \/ createConversation
    \/ \E id \in 1..MaxIds : deleteConversation(id)
    \/ \E id \in 1..MaxIds : setActiveConversation(id)
    \/ \E id \in 1..MaxIds : switchToBranch(id)
    \/ \E t \in MsgTypes, c \in Contents : addMessage(t, c)
    \/ \E id \in 1..MaxIds, c \in Contents : updateMessage(id, c)
    \/ \E b \in BOOLEAN : setThinking(b)
    \/ \E id \in 1..MaxIds, c \in Contents : createBranch(id, c)

Spec == Init /\ [][Next]_vars

TypeOK ==
    /\ user \in Users \cup {Null}
    /\ isAuthenticated \in BOOLEAN
    /\ isThinking \in BOOLEAN
    /\ nextId \in 1..(MaxIds + 1)
    /\ activeConversationId \in 0..MaxIds
    /\ returned \in 0..MaxIds
    /\ Len(messages) <= MaxMsgs + 1
    /\ Len(conversations) <= MaxIds

(***************************************************************************)
(* SylvieV3Interface (unnamed/part_008): the component that drives the     *)
(* store.  Event handlers run to completion, so each is one step.  Time    *)
(* passes in steps of TickMs; a timeout whose delay has elapsed fires      *)
(* before more time passes, but other events may still come first.  The    *)
(* sidebar is taken to be open (its initial state), which is when every    *)
(* handler below can be reached.                                           *)
(***************************************************************************)

\* onChange of the text area
setInputValue(v) ==
    /\ UNCHANGED restVars
    /\ inputValue' = v
    /\ UNCHANGED <<storeVars, timers, sent, replied, replyLog>>

\* handleSendMessage: returns at once on a blank input; otherwise creates a
\* conversation when none is active, adds the user message, empties the
\* input, sets isThinking and schedules the simulated reply.  The callback
\* keeps the input of this call; conv records which conversation received
\* the user message (history, not read by the code).  As in the store's
\* actions, a send starts only while nextId <= MaxIds; the reply of a send
\* that started always gets its id.
handleSendMessage ==
    /\ UNCHANGED restVars
    /\ Trim(inputValue) # ""
    /\ sent < MaxSends
    /\ nextId <= MaxIds
    /\ LET s1 == IF activeConversationId = Null
                 THEN stCreateConversation(StoreState)
                 ELSE StoreState
           s2 == stAddMessage(s1, "user", inputValue)
       IN /\ SetStore(s2)
          /\ timers' = Append(timers, [remaining |-> ReplyDelay,
                                       input |-> inputValue,
                                       conv |-> s2.activeConversationId])
    /\ inputValue' = ""
    /\ isThinking' = TRUE
    /\ sent' = sent + 1
    /\ UNCHANGED <<user, isAuthenticated, returned, replied, replyLog>>

\* onPressEnter without shift: calls handleSendMessage whatever isThinking is
onPressEnter == handleSendMessage

\* onClick of the send button, which is disabled on a blank input and
\* while isThinking
onClickSend ==
    /\ ~(Trim(inputValue) = "" \/ isThinking)
    /\ handleSendMessage

\* onClick of "Nouvelle conversation" in the sidebar
onClickNewConversation ==
    /\ UNCHANGED restVars
    /\ Len(conversations) < MaxConvs
    /\ nextId <= MaxIds
    /\ SetStore(stCreateConversation(StoreState))
    /\ returned' = nextId
    /\ UNCHANGED <<user, isAuthenticated, isThinking, uiVars>>

\* onClick of a conversation card in the sidebar
onClickConversation(id) ==
    /\ \E i \in 1..Len(conversations) : conversations[i].id = id
    /\ setActiveConversation(id)

\* Mutant of TimerFire: the callback adds the reply but leaves isThinking set
TimerFire_KeepsThinking ==
    /\ UNCHANGED restVars
    /\ timers # <<>>
    /\ Head(timers).remaining = 0
    /\ SetStore(stAddMessage(StoreState, "assistant",
                             ReplyTo(Head(timers).input)))
    /\ timers' = Tail(timers)
    /\ replied' = replied + 1
    /\ replyLog' = replyLog \cup {[id |-> nextId, conv |-> Head(timers).conv]}
    /\ UNCHANGED <<user, isAuthenticated, isThinking, returned, inputValue,
                   sent>>

\* The setTimeout callback of handleSendMessage: addMessage of the reply,
\* then setThinking(false).  Timeouts of equal delay fire in scheduling order.
TimerFire ==
    /\ UNCHANGED restVars
    /\ timers # <<>>
    /\ Head(timers).remaining = 0
    /\ SetStore(stAddMessage(StoreState, "assistant",
                             ReplyTo(Head(timers).input)))
    /\ isThinking' = FALSE
    /\ timers' = Tail(timers)
    /\ replied' = replied + 1
    /\ replyLog' = replyLog \cup {[id |-> nextId, conv |-> Head(timers).conv]}
    /\ UNCHANGED <<user, isAuthenticated, returned, inputValue, sent>>

\* TickMs of time pass: no pending timeout is already due
Tick ==
    /\ UNCHANGED restVars
    /\ timers # <<>>
    /\ \A i \in 1..Len(timers) : timers[i].remaining >= TickMs
    /\ timers' = [i \in 1..Len(timers) |->
                      [timers[i] EXCEPT !.remaining = @ - TickMs]]
    /\ UNCHANGED <<storeVars, inputValue, sent, replied, replyLog>>

UINext ==
    \/ \E v \in Inputs : setInputValue(v)
    \/ onPressEnter
    \/ onClickSend
    \/ onClickNewConversation
    \/ \E id \in 1..(3 * MaxSends + MaxConvs) : onClickConversation(id)
    \/ TimerFire
    \/ Tick

UISpec == Init /\ [][UINext]_vars

\* The event loop runs a due callback, and time passes
UIFairSpec == UISpec /\ WF_vars(TimerFire) /\ WF_vars(Tick)

(***************************************************************************)
(* ChatInterface (sylvie-v3/src/features/ChatInterface.tsx, second         *)
(* component of the file): the toast and its cleaning effect.  A setToast  *)
(* with a new object re-renders; React then runs the cleanup of the        *)
(* previous effect (clearTimeout) and the effect again, before any other   *)
(* event is handled, so a handler and the effect that follows are one step. *)
(* The conversations hook the component sends through is not part of the   *)
(* sources; its addMessage either returns or throws.                       *)
(***************************************************************************)

\* What the message field can hold; "long" stands for a text of 1001 characters
Messages == {"", " ", "a", "long"}

\* String.prototype.length and the length after trim() of the values above
StrLen(m) ==
    CASE m = "" -> 0
      [] m = " " -> 1
      [] m = "a" -> 1
      [] OTHER -> MESSAGE_MAX_LENGTH + 1

TrimLen(m) == IF m = " " THEN 0 ELSE StrLen(m)

validateMessage(m) ==
    TrimLen(m) >= MESSAGE_MIN_LENGTH /\ StrLen(m) <= MESSAGE_MAX_LENGTH

\* Mutant of toastEffect: the effect returns no cleanup, so the timeout of
\* the previous toast stays pending
toastEffect_NoCleanup(newToast) ==
    /\ toast' = newToast
    /\ toastTimers' = IF newToast # NoToast
                      THEN Append(toastTimers, [remaining |-> ToastDuration])
                      ELSE toastTimers
    /\ toastAge' = 0
    /\ UNCHANGED toastCancelled

\* setToast(newToast) followed by the effect on [toast]: the cleanup clears
\* the timeout the previous run created, and a non-null toast schedules
\* setToast(null) after THEME.durations.toast
toastEffect(newToast) ==
    /\ toast' = newToast
    /\ toastTimers' = IF newToast # NoToast
                      THEN <<[remaining |-> ToastDuration]>>
                      ELSE <<>>
    /\ toastAge' = 0
    /\ toastCancelled' = toastCancelled + Len(toastTimers)

\* A new toast object ({ message, type }); every setToast call of the
\* component passes a fresh object literal
NewToast(type) == [id |-> toastShown + 1, type |-> type]

showToast(type) ==
    /\ toastShown < MaxToasts
    /\ toastShown' = toastShown + 1
    /\ toastEffect(NewToast(type))

\* onChange of the message field
setMessage(m) ==
    /\ message' = m
    /\ UNCHANGED <<storeVars, uiVars, apiVars, clientVars, toast, toastTimers,
                   toastShown, toastAge, toastCancelled>>

\* handleSend: an invalid message shows an error toast; a valid one is
\* handed to addMessage, and the field is emptied, or addMessage throws and
\* an error toast is shown
handleSend ==
    /\ IF ~validateMessage(message)
       THEN /\ showToast("error")
            /\ UNCHANGED message
       ELSE \/ /\ message' = ""
               /\ UNCHANGED <<toast, toastTimers, toastShown, toastAge,
                              toastCancelled>>
            \/ /\ showToast("error")
               /\ UNCHANGED message
    /\ UNCHANGED <<storeVars, uiVars, apiVars, clientVars>>

\* onShortcutClick: the shortcut's message goes to the field and a toast
\* without type is shown
onShortcutClick ==
    /\ message' = "a"
    /\ showToast("none")
    /\ UNCHANGED <<storeVars, uiVars, apiVars, clientVars>>

\* The setToast calls of ShortcutModal (moved, deleted, undone, saved ...)
shortcutModalToast(type) ==
    /\ showToast(type)
    /\ UNCHANGED <<storeVars, uiVars, apiVars, clientVars, message>>

\* The timeout callback: setToast(null), then the effect's cleanup
ToastTimerFire ==
    /\ toastTimers # <<>>
    /\ Head(toastTimers).remaining = 0
    /\ toast' = NoToast
    /\ toastTimers' = Tail(toastTimers)
    /\ UNCHANGED <<storeVars, uiVars, apiVars, clientVars, message,
                   toastShown, toastAge, toastCancelled>>

\* TickMs of time pass: no pending timeout is already due
ToastTick ==
    /\ toastTimers # <<>>
    /\ \A i \in 1..Len(toastTimers) : toastTimers[i].remaining >= TickMs
    /\ toastTimers' = [i \in 1..Len(toastTimers) |->
                           [toastTimers[i] EXCEPT !.remaining = @ - TickMs]]
    /\ toastAge' = toastAge + TickMs
    /\ UNCHANGED <<storeVars, uiVars, apiVars, clientVars, message, toast,
                   toastShown, toastCancelled>>

ToastNext ==
    \/ \E m \in Messages : setMessage(m)
    \/ handleSend
    \/ onShortcutClick
    \/ \E t \in {"success", "error", "none"} : shortcutModalToast(t)
    \/ ToastTimerFire
    \/ ToastTick

ToastSpec == Init /\ [][ToastNext]_vars

\* The event loop runs a due callback, and time passes
ToastFairSpec == ToastSpec /\ WF_vars(ToastTimerFire) /\ WF_vars(ToastTick)

(***************************************************************************)
(* The /api/conversations handler (unnamed/part_007) over its in-memory    *)
(* array.  A conversation is its id and its messages; a request carries    *)
(* its method and its JSON body, which is an object (id and fields) or an  *)
(* array of conversations.                                                 *)
(***************************************************************************)

\* undefined, as the id of a body that has none
Undefined == 0

\* A message of ChatInterface: { id, sender, content }
ChatMsg(id, sender) == [id |-> id, sender |-> sender]

\* A conversation of ChatInterface: { id, title, messages }
Conv(id, msgs) == [id |-> id, messages |-> msgs]

\* A request: method, and the body as an object (id, messages) or an array
Request(method, kind, id, msgs, list) ==
    [method |-> method, kind |-> kind, id |-> id, messages |-> msgs,
     list |-> list]

\* const { id, ...update } = req.body: an array has no id property
BodyId(req) == IF req.kind = "object" THEN req.id ELSE Undefined

\* { ...c, ...update }: the fields of an object body replace those of c; the
\* index properties of an array body are added beside them
Merge(c, req) ==
    IF req.kind = "object" THEN [c EXCEPT !.messages = req.messages] ELSE c

\* conversations.filter(c => c.id !== id)
RECURSIVE SrvFilterOut(_, _)
SrvFilterOut(convs, id) ==
    IF convs = <<>> THEN <<>>
    ELSE IF Head(convs).id # id
         THEN <<Head(convs)>> \o SrvFilterOut(Tail(convs), id)
         ELSE SrvFilterOut(Tail(convs), id)

\* The response of the handler and the array after it
Handled(convs, status, json) ==
    [conversations |-> convs, status |-> status, json |-> json]

\* handler(req, res)
handler(convs, req) ==
    CASE req.method = "GET" -> Handled(convs, 200, convs)
      [] req.method = "POST" ->
            Handled(Append(convs, Conv(Len(convs) + 1, req.messages)),
                    201, <<>>)
      [] req.method = "PUT" ->
            Handled([i \in 1..Len(convs) |->
                        IF convs[i].id = BodyId(req)
                        THEN Merge(convs[i], req) ELSE convs[i]],
                    200, <<>>)
      [] req.method = "DELETE" ->
            Handled(SrvFilterOut(convs, BodyId(req)), 200, <<>>)
      [] OTHER -> Handled(convs, 405, <<>>)

\* The message lists a body may carry
BodyMessages == {<<>>, <<ChatMsg(1, "Utilisateur")>>}

\* The requests of any client of the API
ApiRequests ==
    {Request(m, "object", id, msgs, <<>>) :
        m \in {"GET", "POST", "PUT", "DELETE", "PATCH"},
        id \in 0..MaxSrvConvs, msgs \in BodyMessages}

\* The server handles one request of some client
apiRequest(req) ==
    /\ req.method = "POST" => Len(srvConversations) < MaxSrvConvs
    /\ LET h == handler(srvConversations, req)
       IN /\ srvConversations' = h.conversations
          /\ lastStatus' = h.status
    /\ UNCHANGED <<storeVars, uiVars, toastVars, clientVars>>

apiGet(req) == req.method = "GET" /\ apiRequest(req)
apiPost(req) == req.method = "POST" /\ apiRequest(req)
apiPut(req) == req.method = "PUT" /\ apiRequest(req)
apiDelete(req) == req.method = "DELETE" /\ apiRequest(req)
apiOther(req) ==
    req.method \notin {"GET", "POST", "PUT", "DELETE"} /\ apiRequest(req)

ApiNext ==
    \/ \E req \in ApiRequests : apiGet(req)
    \/ \E req \in ApiRequests : apiPost(req)
    \/ \E req \in ApiRequests : apiPut(req)
    \/ \E req \in ApiRequests : apiDelete(req)
    \/ \E req \in ApiRequests : apiOther(req)

ApiSpec == Init /\ [][ApiNext]_vars



(***************************************************************************)
(* ChatInterface (first component of ChatInterface.tsx) and the requests   *)
(* it sends to the handler.  fetch() is asynchronous: a request waits in   *)
(* net until the server handles it, and requests may be handled in any     *)
(* order.  Only fetchConversations awaits its responses.  The server's     *)
(* array and localStorage outlive a reload of the page.                    *)
(***************************************************************************)

\* Messages mock initiaux
initialMessages == <<ChatMsg(1, "Sylvie"), ChatMsg(2, "Utilisateur")>>

\* conversations.find(c => c.id === currentConvId): its index, or 0
CurrentConvIndex ==
    IF \E i \in 1..Len(cliConversations) :
           cliConversations[i].id = currentConvId
    THEN CHOOSE i \in 1..Len(cliConversations) :
            /\ cliConversations[i].id = currentConvId
            /\ \A j \in 1..(i - 1) : cliConversations[j].id # currentConvId
    ELSE 0

\* fetch('/api/conversations', { method: 'PUT', body: JSON.stringify(conversations) })
PutAll(convs) == Request("PUT", "array", Undefined, <<>>, convs)

\* The effect on [conversations, currentConvId, loading], run after a render
\* in which one of them changed: when not loading, PUT the list and write
\* it to localStorage
saveEffect(convs, isLoading, requests) ==
    IF ~isLoading
    THEN /\ net' = Append(requests, PutAll(convs))
         /\ localStore' = [present |-> TRUE, value |-> convs]
    ELSE /\ net' = requests
         /\ UNCHANGED localStore

\* The mount effect: fetchConversations starts, GET is sent
fetchConversations ==
    /\ loadPc = "mount"
    /\ loading' = TRUE
    /\ net' = Append(net, Request("GET", "object", Undefined, <<>>, <<>>))
    /\ loadPc' = "awaitGet"
    /\ UNCHANGED <<storeVars, uiVars, toastVars, apiVars, cliConversations,
                   currentConvId, resp, localStore, reloads>>

\* The server handles one of the requests in flight; the response of a GET
\* or POST goes back to fetchConversations
serverHandle(i) ==
    /\ i \in 1..Len(net)
    /\ LET req == net[i]
           h == handler(srvConversations, req)
           rest == [k \in 1..(Len(net) - 1) |->
                       IF k < i THEN net[k] ELSE net[k + 1]]
       IN /\ srvConversations' = h.conversations
          /\ lastStatus' = h.status
          /\ net' = rest
          /\ resp' = IF req.method \in {"GET", "POST"}
                     THEN <<[status |-> h.status, json |-> h.json]>>
                     ELSE resp
    /\ UNCHANGED <<storeVars, uiVars, toastVars, cliConversations,
                   currentConvId, loading, loadPc, localStore, reloads>>

\* The GET response arrives: a non-empty array becomes the list; otherwise
\* the main conversation is POSTed
gotConversations ==
    /\ loadPc = "awaitGet"
    /\ resp # <<>>
    /\ resp' = <<>>
    /\ LET data == resp[1].json IN
       IF Len(data) > 0
       THEN /\ cliConversations' = data
            /\ currentConvId' = data[1].id
            /\ loading' = FALSE
            /\ loadPc' = "done"
            /\ saveEffect(data, FALSE, net)
       ELSE /\ net' = Append(net, Request("POST", "object", 1,
                                          initialMessages, <<>>))
            /\ loadPc' = "awaitPost"
            /\ UNCHANGED <<cliConversations, currentConvId, loading,
                           localStore>>
    /\ UNCHANGED <<storeVars, uiVars, toastVars, apiVars, reloads>>

\* The POST response arrives: the list is the main conversation
postedMain ==
    /\ loadPc = "awaitPost"
    /\ resp # <<>>
    /\ resp' = <<>>
    /\ cliConversations' = <<Conv(1, initialMessages)>>
    /\ currentConvId' = 1
    /\ loading' = FALSE
    /\ loadPc' = "done"
    /\ saveEffect(<<Conv(1, initialMessages)>>, FALSE, net)
    /\ UNCHANGED <<storeVars, uiVars, toastVars, apiVars, reloads>>

\* The awaited fetch rejects (backend down): the request is lost and the
\* catch block falls back on localStorage
fetchFails ==
    /\ loadPc \in {"awaitGet", "awaitPost"}
    /\ resp = <<>>
    /\ \E i \in 1..Len(net) :
          /\ net[i].method \in {"GET", "POST"}
          /\ LET rest == [k \in 1..(Len(net) - 1) |->
                             IF k < i THEN net[k] ELSE net[k + 1]]
                 convs == IF localStore.present THEN localStore.value
                          ELSE cliConversations
             IN /\ cliConversations' = convs
                /\ currentConvId' =
                       IF localStore.present
                       THEN (IF Len(localStore.value) > 0
                             THEN localStore.value[1].id ELSE 1)
                       ELSE currentConvId
                /\ saveEffect(convs, FALSE, rest)
    /\ loading' = FALSE
    /\ loadPc' = "done"
    /\ UNCHANGED <<storeVars, uiVars, toastVars, apiVars, resp, reloads>>

\* handleSend of the first component: needs a non-blank message and a
\* current conversation; appends the message to it and empties the field
chatHandleSend ==
    /\ TrimLen(message) > 0
    /\ CurrentConvIndex # 0
    /\ Len(cliConversations[CurrentConvIndex].messages) < MaxChatMsgs
    /\ Len(net) < MaxNet
    /\ LET newMsg == ChatMsg(Len(cliConversations[CurrentConvIndex].messages) + 1,
                             "Utilisateur")
           convs == [i \in 1..Len(cliConversations) |->
                        IF cliConversations[i].id = currentConvId
                        THEN [cliConversations[i] EXCEPT
                                 !.messages = Append(@, newMsg)]
                        ELSE cliConversations[i]]
       IN /\ cliConversations' = convs
          /\ saveEffect(convs, loading, net)
    /\ message' = ""
    /\ UNCHANGED <<storeVars, uiVars, apiVars, toast, toastTimers, toastShown,
                   toastAge, toastCancelled, currentConvId, loading, loadPc,
                   resp, reloads>>

handleNewConversation ==
    /\ Len(cliConversations) < MaxChatConvs
    /\ Len(net) < MaxNet
    /\ LET newId == Len(cliConversations) + 1
           convs == Append(cliConversations, Conv(newId, <<>>))
       IN /\ cliConversations' = convs
          /\ currentConvId' = newId
          /\ saveEffect(convs, loading, net)
    /\ UNCHANGED <<storeVars, uiVars, toastVars, apiVars, loading, loadPc,
                   resp, reloads>>

\* The effect runs only when currentConvId changes
handleSelectConversation(id) ==
    /\ \E i \in 1..Len(cliConversations) : cliConversations[i].id = id
    /\ id # currentConvId
    /\ Len(net) < MaxNet
    /\ currentConvId' = id
    /\ saveEffect(cliConversations, loading, net)
    /\ UNCHANGED <<storeVars, uiVars, toastVars, apiVars, cliConversations,
                   loading, loadPc, resp, reloads>>

handleResetConversation ==
    /\ Len(net) < MaxNet
    /\ LET convs == [i \in 1..Len(cliConversations) |->
                        IF cliConversations[i].id = currentConvId
                        THEN [cliConversations[i] EXCEPT !.messages = <<>>]
                        ELSE cliConversations[i]]
       IN /\ cliConversations' = convs
          /\ saveEffect(convs, loading, net)
    /\ UNCHANGED <<storeVars, uiVars, toastVars, apiVars, currentConvId,
                   loading, loadPc, resp, reloads>>

\* The page is reloaded once the load has finished: the component state
\* starts again, the server's array, localStorage and the requests already
\* sent remain
reload ==
    /\ loadPc = "done"
    /\ reloads < MaxReloads
    /\ reloads' = reloads + 1
    /\ cliConversations' = <<>>
    /\ currentConvId' = 1
    /\ loading' = TRUE
    /\ loadPc' = "mount"
    /\ resp' = <<>>
    /\ message' = ""
    /\ UNCHANGED <<storeVars, uiVars, apiVars, toast, toastTimers, toastShown,
                   toastAge, toastCancelled, net, localStore>>

ChatNext ==
    \/ fetchConversations
    \/ \E i \in 1..(MaxNet + 2) : serverHandle(i)
    \/ gotConversations
    \/ postedMain
    \/ fetchFails
    \/ \E m \in Messages : setMessage(m)
    \/ chatHandleSend
    \/ handleNewConversation
    \/ \E id \in 1..MaxChatConvs : handleSelectConversation(id)
    \/ handleResetConversation
    \/ reload

ChatSpec == Init /\ [][ChatNext]_vars

(***************************************************************************)
(* Claims about the store (checked under Spec)                             *)
(***************************************************************************)

\* C16: in every reachable state of the store, when activeConversationId is
\* not null a conversation with that id exists and state.messages equals the
\* messages of that conversation.
C16_ActiveConversationInSync ==
    activeConversationId # Null =>
        \E i \in 1..Len(conversations) :
            /\ conversations[i].id = activeConversationId
            /\ conversations[i].messages = messages

\* C16 witness: a branch is active beside its source conversation, both
\* holding messages.
C16_Witness ==
    /\ activeConversationId # Null
    /\ Len(messages) >= 2
    /\ \E i, j \in 1..Len(conversations) :
            /\ conversations[i].id = activeConversationId
            /\ conversations[i].parentId = conversations[j].id
            /\ conversations[j].messages # <<>>

(***************************************************************************)
(* Claims about SylvieV3Interface (checked under UISpec / UIFairSpec)      *)
(***************************************************************************)

\* The ids of the assistant messages held by the store
AssistantIds ==
    {messages[k].id : k \in {j \in 1..Len(messages) :
                                 messages[j].type = "assistant"}}
    \cup UNION {{conversations[i].messages[k].id :
                    k \in {j \in 1..Len(conversations[i].messages) :
                              conversations[i].messages[j].type = "assistant"}} :
                i \in 1..Len(conversations)}

\* A step that accepts a send: the input was not blank, the user message
\* with that input is the new last message, isThinking is set and one more
\* timeout is pending, due in ReplyDelay
C14_SendStep ==
    (sent' = sent + 1) =>
        /\ Trim(inputValue) # ""
        /\ messages' # <<>>
        /\ messages'[Len(messages')].type = "user"
        /\ messages'[Len(messages')].content = inputValue
        /\ Len(messages') = (IF activeConversationId = Null
                             THEN 0 ELSE Len(messages)) + 1
        /\ isThinking'
        /\ timers' = Append(timers, timers'[Len(timers')])
        /\ timers'[Len(timers')].remaining = ReplyDelay

\* Every send has exactly one reply, fired or still pending; each fired
\* reply is one assistant message; with no reply pending isThinking is false
C14_Counts ==
    /\ sent = replied + Len(timers)
    /\ Cardinality(AssistantIds) = replied
    /\ (timers = <<>> => ~isThinking)

\* C14: every accepted send (non-blank input) appends the user message,
\* sets isThinking and schedules one simulated reply ReplyDelay ms later;
\* every send is eventually answered by exactly one assistant message, and
\* once all replies have fired isThinking is false.
C14_SendIsAnsweredOnce ==
    /\ [][C14_SendStep]_vars
    /\ []C14_Counts
    /\ (replied < sent) ~> (replied = sent)

\* C14 witness: two sends, both answered, nothing pending
C14_Witness ==
    /\ sent >= 2
    /\ replied = sent
    /\ timers = <<>>
    /\ ~isThinking

\* C17: the simulated reply to a user message is appended to the
\* conversation that received that user message, also when the active
\* conversation changed during the delay.
C17_ReplyInOriginConversation ==
    \A r \in replyLog :
        \E i \in 1..Len(conversations) :
            /\ conversations[i].id = r.conv
            /\ \E k \in 1..Len(conversations[i].messages) :
                   conversations[i].messages[k].id = r.id

\* C18: isThinking is true in every state in which a simulated reply is
\* still pending.
C18_ThinkingWhilePending == (timers # <<>>) => isThinking

(***************************************************************************)
(* Claims about the toast of ChatInterface (ToastSpec / ToastFairSpec)     *)
(***************************************************************************)

\* A step that clears the toast happens ToastDuration after it was last set
C15_ClearStep ==
    (toast # NoToast /\ toast' = NoToast) => toastAge = ToastDuration

\* A step that shows a new toast leaves exactly its own timeout pending,
\* with the full delay ahead
C15_RestartStep ==
    (toast' # NoToast /\ toast' # toast) =>
        toastTimers' = <<[remaining |-> ToastDuration]>>

\* While a toast is shown exactly one timeout is pending and it is due
\* ToastDuration after the toast was last set; with no toast none is pending
C15_TimerState ==
    IF toast # NoToast
    THEN /\ Len(toastTimers) = 1
         /\ toastTimers[1].remaining = ToastDuration - toastAge
    ELSE toastTimers = <<>>

\* C15: a toast is cleared automatically ToastDuration (3000 ms) after it
\* was last set; no toast stays displayed forever; showing a new toast
\* before the delay has elapsed cancels the previous timeout and restarts
\* the delay.
C15_ToastClearedAfterDelay ==
    /\ [][C15_ClearStep /\ C15_RestartStep]_vars
    /\ []C15_TimerState
    /\ \A k \in 1..MaxToasts : (toast.id = k) ~> (toast.id # k)

\* C15 witness: a toast replaced another one whose timeout was cancelled,
\* and was itself cleared after the full delay
C15_Witness ==
    /\ toastCancelled >= 1
    /\ toast = NoToast
    /\ toastAge = ToastDuration

(***************************************************************************)
(* Claims about the /api/conversations handler (checked under ApiSpec)     *)
(***************************************************************************)

\* C20: after any sequence of POST, PUT and DELETE requests no two stored
\* conversations have the same id.
C20_UniqueIds ==
    \A i, j \in 1..Len(srvConversations) :
        i # j => srvConversations[i].id # srvConversations[j].id

\* C21: createBranch(messageId, newMessage) with messageId the id of a
\* message in state.messages adds one conversation, makes it active and
\* leaves every conversation that existed unchanged; the branch holds the
\* current messages up to and including that message, then one new user
\* message with content newMessage, and its parentId is the conversation
\* that was active.
C21_BranchStep ==
    \A messageId \in 1..MaxIds, newMessage \in Contents :
        ((\E k \in 1..Len(messages) : messages[k].id = messageId)
            /\ createBranch(messageId, newMessage)) =>
        LET n == Len(conversations)
            idx == CHOOSE k \in 1..Len(messages) :
                      /\ messages[k].id = messageId
                      /\ \A j \in 1..(k - 1) : messages[j].id # messageId
        IN /\ Len(conversations') = n + 1
           /\ \A i \in 1..n : conversations'[i] = conversations[i]
           /\ \A i \in 1..n : conversations'[n + 1].id # conversations[i].id
           /\ Len(conversations'[n + 1].messages) = idx + 1
           /\ \A k \in 1..idx :
                  conversations'[n + 1].messages[k] = messages[k]
           /\ conversations'[n + 1].messages[idx + 1].type = "user"
           /\ conversations'[n + 1].messages[idx + 1].content = newMessage
           /\ conversations'[n + 1].parentId = activeConversationId
           /\ activeConversationId' = conversations'[n + 1].id
           /\ messages' = conversations'[n + 1].messages

C21_CreateBranchAddsBranch == [][C21_BranchStep]_vars

\* C21 witness: a branch made from the first message of a conversation is
\* active; it holds that message and the new user message, and the
\* conversation it was made from still holds its message.
C21_Witness ==
    \E i, j \in 1..Len(conversations) :
        /\ conversations[i].id = activeConversationId
        /\ conversations[i].parentId = conversations[j].id
        /\ Len(conversations[j].messages) = 1
        /\ Len(conversations[i].messages) = 2
        /\ conversations[i].messages[1] = conversations[j].messages[1]
        /\ conversations[i].messages[2].parentId = conversations[j].messages[1].id
        /\ messages = conversations[i].messages

\* C22: for every call of createBranch, the id it returns is the id of a
\* conversation present in the store after the call.
C22_ReturnStep ==
    \A messageId \in 1..MaxIds, newMessage \in Contents :
        createBranch(messageId, newMessage) =>
            \E i \in 1..Len(conversations') :
                conversations'[i].id = returned'

C22_ReturnedBranchExists == [][C22_ReturnStep]_vars

\* C23: deleteConversation(id) removes exactly the conversation with that
\* id and leaves the others as they were, in their order; when it was the
\* active conversation, activeConversationId becomes null and messages
\* empty, otherwise both are unchanged; when no conversation has the id,
\* nothing changes.  Stated of the store state of any reachable state and
\* of any id.
C23_DeleteRemovesOnlyThatConversation ==
    \A id \in 1..MaxIds :
        LET s == StoreState
            t == stDeleteConversation(s, id)
            hit == {i \in 1..Len(s.conversations) : s.conversations[i].id = id}
            IsOther(c) == c.id # id
        IN /\ Cardinality(hit) <= 1
           /\ t.conversations = SelectSeq(s.conversations, IsOther)
           /\ Len(t.conversations) = Len(s.conversations) - Cardinality(hit)
           /\ (s.activeConversationId = id) =>
                  (t.activeConversationId = Null /\ t.messages = <<>>)
           /\ (s.activeConversationId # id) =>
                  /\ t.activeConversationId = s.activeConversationId
                  /\ t.messages = s.messages
           /\ (hit = {}) => (t = s)

\* C23 witness: the active conversation was deleted beside a conversation
\* that holds a message: nothing is active, no message is on screen, and
\* the other conversation still holds its message.
C23_Witness ==
    /\ activeConversationId = Null
    /\ messages = <<>>
    /\ \E i \in 1..Len(conversations) : conversations[i].messages # <<>>

(***************************************************************************)
(* Claims about ChatInterface and the handler together (ChatSpec)          *)
(***************************************************************************)

\* C19: once the initial load has finished, every modification of the
\* client's list is saved with PUT so that the server's stored conversations
\* equal the client's list: when the server holds the conversations of the
\* initial load and has handled every save, what a GET returns is the
\* client's list.
C19_ServerHoldsClientList ==
    (loadPc = "done" /\ ~loading /\ net = <<>> /\ srvConversations # <<>>) =>
        handler(srvConversations,
                Request("GET", "object", Undefined, <<>>, <<>>)).json
            = cliConversations
====
